---- MODULE Spec2Model ----
(***************************************************************************)
(* Session store, channel bindings and the recurring alert monitor of      *)
(* src/DiscBot.py (class StockAlertsBot).                                  *)
(*                                                                         *)
(* The bot runs on one cooperative event loop: code between two `await`s   *)
(* runs without interleaving (requests.* calls block the loop).  Every     *)
(* action below is one such segment of a handler.  The monitor's per-user  *)
(* iterations that follow each other without an `await` are chained by     *)
(* mpc = "loop", during which no other action is enabled.                  *)
(*                                                                         *)
(* A session dict is identified by its access token: every successful      *)
(* login creates a new dict holding a token the backend never issued       *)
(* before, so "same token" stands for Python object identity.              *)
(***************************************************************************)
EXTENDS Integers, Sequences, FiniteSets, TLC

\* ---------------------------------------------------------------- bounds
MaxTime == 480          \* horizon of the wall clock where the monitor is observed, seconds
CmdMaxTime == 120       \* horizon of the wall clock where the commands are observed, seconds
MaxLogins == 3          \* number of sessions ever created
MaxAlerts == 1          \* longest triggered-alert list the backend returns
MaxList == 6            \* longest alert list handed to the Notifier
ChanMaxTime == 360      \* horizon of the wall clock where the channels are observed, seconds
LiveMaxTime == 840      \* horizon of the wall clock of the undisturbed monitor, seconds

\* ------------------------------------------------------- program constants
COOLDOWN == 300         \* time_since_last.total_seconds() >= 300
PERIOD == 120           \* @tasks.loop(minutes=2)
TICK == PERIOD          \* granularity of the modelled clock: one period
SHOWN == 5              \* alerts_to_show = alerts[:5]

Users == {1, 2}
Channels == {1, 2}
Usernames == {"alice"}
NoChannel == 0
NoToken == 0
NoTime == -1

\* "500" stands for every status other than 200 and 401: no handler of the
\* monitor tells them apart.
Statuses == {"200", "401", "500"}
Failures == {"Timeout", "ConnectionError"}

VARIABLES
    now,             \* datetime.now()
    user_sessions,   \* self.user_sessions, a dict in insertion order
    alert_channels,  \* self.alert_channels
    nextToken,       \* next access token the backend will issue
    loopRunning,     \* monitor_triggered_alerts.is_running()
    nextPass,        \* time of the next firing of the tasks.loop
    mpc,             \* position of the monitor coroutine
    snapshot,        \* list(self.user_sessions.items()) of the current pass
    midx,            \* index into snapshot of the current iteration
    pend,            \* the command suspended between its session read and its backend call
    lastNotifyAt,    \* history: time of the latest Notifier invocation per user, while
                     \* it is less than COOLDOWN ago
    last,            \* history: what the latest step did, if scope observes it
    scope,           \* which steps `last` records, fixed by the initial state
    notifier         \* one call of send_triggered_alert_notification, followed alone

vars == <<now, user_sessions, alert_channels, nextToken, loopRunning, nextPass,
          mpc, snapshot, midx, pend, lastNotifyAt, last, scope, notifier>>

\* ------------------------------------------------------------ dict helpers
HasSession(d, u) == \E i \in 1..Len(d) : d[i].user_id = u

IndexOf(d, u) == CHOOSE i \in 1..Len(d) : d[i].user_id = u

GetSession(d, u) == d[IndexOf(d, u)].session

\* An assignment that always adds a record.
PutSession_Append(d, u, s) == Append(d, [user_id |-> u, session |-> s])

\* An assignment that updates the token of an existing record in place.
PutSession_InPlace(d, u, s) ==
    IF HasSession(d, u)
    THEN [d EXCEPT ![IndexOf(d, u)].session.access_token = s.access_token]
    ELSE Append(d, [user_id |-> u, session |-> s])

PutSession(d, u, s) ==
    IF HasSession(d, u)
    THEN [d EXCEPT ![IndexOf(d, u)] = [user_id |-> u, session |-> s]]
    ELSE Append(d, [user_id |-> u, session |-> s])

\* A delete that clears the whole dict.
DelSession_All(d, u) == <<>>

\* A delete that drops the first entry of the dict, whoever owns it.
DelSession_Head(d, u) == IF d = <<>> THEN d ELSE Tail(d)

DelSession(d, u) == SelectSeq(d, LAMBDA e : e.user_id /= u)

SessionUsers(d) == {d[i].user_id : i \in 1..Len(d)}

NewSession(tok, username, t) ==
    [access_token |-> tok, username |-> username, connected_at |-> t,
     refresh_token |-> tok, last_alert_check |-> t]

NoPend == [user |-> 0, token |-> NoToken]

\* ------------------------------------------------------------ observations
\* `last` describes the latest step: the handler, its user, the token of the
\* backend call it made (NoToken: no call), the outcome of that call, the
\* number of alerts read from it, whether the user and the bound channel
\* were resolved (they are looked up only when alerts were read), and the
\* channel the Notifier was invoked on (NoChannel: not invoked).
Quiet ==
    [op |-> "other", user |-> 0, token |-> NoToken, status |-> "none",
     alerts |-> 0, resolved |-> FALSE, notified |-> NoChannel,
     shown |-> "none", duration |-> "none", channel |-> NoChannel, moved |-> FALSE]

\* What `last` becomes at a step the scope does not observe: where only the
\* logouts are observed it keeps the latest logout, and where the channels
\* are observed it keeps the latest login that bound a channel ("bound", `channel`,
\* and `moved`: the user was bound to another channel before) together with
\* the channel of the latest Notifier invocation for that login's user.
Unobserved == IF scope \in {"logouts", "channels"} THEN last ELSE Quiet

MonEvent(op, u, tok, status, n, resolved, notified) ==
    IF scope \in {"monitor", "live"}
    THEN [op |-> op, user |-> u, token |-> tok, status |-> status,
          alerts |-> n, resolved |-> resolved, notified |-> notified,
          shown |-> "none", duration |-> "none", channel |-> NoChannel, moved |-> FALSE]
    ELSE IF scope = "channels" /\ notified /= NoChannel
              /\ last.op = "bound" /\ last.user = u
    THEN [last EXCEPT !.notified = notified]
    ELSE Unobserved

CmdEvent(op, u, tok, status) ==
    IF scope = "commands"
    THEN [op |-> op, user |-> u, token |-> tok, status |-> status,
          alerts |-> 0, resolved |-> FALSE, notified |-> NoChannel,
          shown |-> "none", duration |-> "none", channel |-> NoChannel, moved |-> FALSE]
    ELSE Unobserved

\* A login also records the message it ended with ("success" or "error").
LoginEvent(u, tok, status, shown, channel) ==
    IF scope = "commands"
    THEN [CmdEvent("login", u, tok, status) EXCEPT !.shown = shown]
    ELSE IF scope = "channels" /\ tok /= NoToken
    THEN [Quiet EXCEPT !.op = "bound", !.user = u, !.channel = channel,
                       !.moved = alert_channels[u] \notin {NoChannel, channel}]
    ELSE Unobserved

\* An alert creation also records its duration argument ("none": not given,
\* "nonpositive", "positive").
AlertEvent(u, tok, status, duration) ==
    IF scope = "commands"
    THEN [CmdEvent("alert", u, tok, status) EXCEPT !.duration = duration]
    ELSE Unobserved

\* A logout records the token of the session it removed (NoToken: none).
LogoutEvent(u, tok) ==
    IF scope \in {"commands", "logouts"}
    THEN [Quiet EXCEPT !.op = "logout", !.user = u, !.token = tok]
    ELSE Unobserved

\* Where only the logouts are observed the clock stays at the first firing.
Horizon ==
    IF scope = "monitor" THEN MaxTime
    ELSE IF scope = "commands" THEN CmdMaxTime
    ELSE IF scope = "channels" THEN ChanMaxTime
    ELSE IF scope = "live" THEN LiveMaxTime ELSE 0

\* The token a suspended command read before its await.  The handlers delete
\* by user id, so the token only shows in what the command sends: it is kept
\* where the commands are observed.
Held(tok) == IF scope = "commands" THEN tok ELSE NoToken

\* -------------------------------------------------------------------- Init
Start ==
    /\ now = 0
    /\ user_sessions = <<>>
    /\ alert_channels = [u \in Users |-> NoChannel]
    /\ nextToken = 1
    /\ loopRunning = FALSE
    /\ nextPass = 0
    /\ mpc = "idle"
    /\ snapshot = <<>>
    /\ midx = 1
    /\ pend = NoPend
    /\ lastNotifyAt = [u \in Users |-> NoTime]
    /\ last = Quiet

Scopes == {"monitor", "commands", "logouts", "channels"}

\* No call of the Notifier is followed step by step.
NotifierIdle == [stage |-> "off", alerts |-> <<>>, embed |-> <<>>, sends |-> 0]

Init == Start /\ scope \in Scopes /\ notifier = NotifierIdle

\* ------------------------------------------------------- backend responses
\* What requests.get/post can give a caller: an exception, or a status with
\* a body.  A body is non-JSON, a bare list of n records, or a paginated
\* dict {"results": [...]} of n records.
OneOf(S) == {CHOOSE x \in S : TRUE}

\* The except clauses of the command handlers only edit the message the
\* command shows: one exception stands for all of them there.
CommandFailures == OneOf(Failures)

NoBody == [shape |-> "nonjson", n |-> 0]

Bodies == [shape : {"list", "paged"}, n : 0..MaxAlerts] \cup {NoBody}

Responses ==
    [status : {"200"}, body : Bodies]
        \cup [status : (Statuses \ {"200"}) \cup Failures, body : {NoBody}]

\* data.get('results', data) if isinstance(data, dict) else data, as the
\* number of alert records; response.json() raises on a non-JSON body.
JsonRaises(resp) == resp.body.shape = "nonjson"

AlertsOf(resp) == resp.body.n

\* ------------------------------------------------------------------ clock
\* Time passes only while the event loop is not running a handler segment.
\* A due firing of the tasks.loop is not delayed while the loop is idle.
Tick ==
    /\ loopRunning
    /\ mpc /= "loop"
    /\ now + TICK <= Horizon
    /\ mpc = "idle" => now + TICK <= nextPass
    /\ now' = now + TICK
    /\ lastNotifyAt' = [u \in Users |->
                           IF lastNotifyAt[u] /= NoTime
                               /\ (scope = "live" \/ now' - lastNotifyAt[u] < COOLDOWN)
                           THEN lastNotifyAt[u] ELSE NoTime]
    /\ last' = Unobserved
    /\ UNCHANGED <<user_sessions, alert_channels, nextToken, loopRunning, nextPass,
                   mpc, snapshot, midx, pend, scope, notifier>>

\* ---------------------------------------------------------------- on_ready
\* An on_ready that starts the loop whatever its state.
IsRunning_Never == FALSE

\* self.monitor_triggered_alerts.is_running()
IsRunning == loopRunning

\* Starts the monitoring loop unless it is already running; the first pass
\* of a tasks.loop is due at once.
OnReady ==
    /\ mpc /= "loop"
    /\ IF ~IsRunning
       THEN loopRunning' = TRUE /\ nextPass' = now
       ELSE UNCHANGED <<loopRunning, nextPass>>
    /\ last' = CmdEvent("ready", 0, NoToken, "none")
    /\ UNCHANGED <<now, user_sessions, alert_channels, nextToken,
                   mpc, snapshot, midx, pend, lastNotifyAt, scope, notifier>>

\* ----------------------------------------------------------------- monitor
\* A gate that opens after one period instead of after the cool-down.
CooldownElapsed_OnePeriod(session, t) == t - session.last_alert_check >= PERIOD

\* A gate that stays shut at three periods.
CooldownElapsed_Late(session, t) == t - session.last_alert_check > 3 * PERIOD

\* The cool-down gate of the monitor.
CooldownElapsed(session, t) == t - session.last_alert_check >= COOLDOWN

\* A loop that runs the same iteration again.
NextIteration_Stay ==
    /\ mpc' = "loop"
    /\ UNCHANGED <<snapshot, midx>>

\* Leaving iteration midx: the next iteration, or the end of the pass.
NextIteration ==
    IF midx + 1 > Len(snapshot)
    THEN /\ mpc' = "idle"
         /\ snapshot' = <<>>
         /\ midx' = 1
    ELSE /\ mpc' = "loop"
         /\ midx' = midx + 1
         /\ UNCHANGED snapshot

\* A pass that never returns early.
NoSessions_Never(d) == FALSE

\* if not self.user_sessions: return
NoSessions(d) == d = <<>>

\* A snapshot that lists every entry twice.
SnapshotOf_Twice(d) == d \o d

\* list(self.user_sessions.items()): the entries of the dict at call time,
\* in insertion order, each holding a reference to its session dict.
SnapshotOf(d) == d

\* One firing of the loop: return at once on an empty store, else snapshot
\* the store and enter the per-user loop.
MonitorStart ==
    /\ loopRunning
    /\ mpc = "idle"
    /\ now >= nextPass
    /\ nextPass' = now + PERIOD
    /\ IF NoSessions(user_sessions)
       THEN /\ last' = MonEvent("pass_empty", 0, NoToken, "none", 0, FALSE, NoChannel)
            /\ UNCHANGED <<mpc, snapshot, midx>>
       ELSE /\ mpc' = "loop"
            /\ snapshot' = SnapshotOf(user_sessions)
            /\ midx' = 1
            /\ last' = MonEvent("pass_start", 0, NoToken, "none", 0, FALSE, NoChannel)
    /\ UNCHANGED <<now, user_sessions, alert_channels, nextToken, loopRunning,
                   pend, lastNotifyAt, scope, notifier>>

\* A monitor that evicts on every answer that is not a 200.
Unauthorized_AnyFailure(resp) == resp.status /= "200"

\* elif response.status_code == 401
Unauthorized(resp) == resp.status = "401"

\* A pass with the try/except around the loop instead of inside it: the
\* first exception ends the pass.
IterationFailed_AbortsPass ==
    /\ mpc' = "idle"
    /\ snapshot' = <<>>
    /\ midx' = 1

\* except Exception as e: print(...) goes on with the next user of the
\* snapshot.
IterationFailed == NextIteration

\* An eviction that removes the binding and leaves the session.
MonitorEvict_BindingOnly(u) ==
    /\ alert_channels' = [alert_channels EXCEPT ![u] = NoChannel]
    /\ UNCHANGED user_sessions

\* The eviction of the 401 branch; `del` of a missing key raises KeyError,
\* which the iteration's except clause swallows before the binding is removed.
MonitorEvict(u) ==
    IF HasSession(user_sessions, u)
    THEN /\ user_sessions' = DelSession(user_sessions, u)
         /\ alert_channels' = [alert_channels EXCEPT ![u] = NoChannel]
    ELSE UNCHANGED <<user_sessions, alert_channels>>

\* The number of alerts the iteration reads from a response: none unless
\* the status is 200 and the body parses.
AlertsRead(resp) == IF resp.status = "200" /\ ~JsonRaises(resp) THEN AlertsOf(resp) ELSE 0

\* A gate that never opens.
NotifyGate_Never(n, userFound, channel_id, channelFound, session, t) == FALSE

\* A gate that does not look at the number of alerts.
NotifyGate_IgnoresAlerts(n, userFound, channel_id, channelFound, session, t) ==
    userFound /\ channel_id /= NoChannel /\ channelFound /\ CooldownElapsed(session, t)

\* A gate that does not look at the user.
NotifyGate_IgnoresUser(n, userFound, channel_id, channelFound, session, t) ==
    n > 0 /\ channel_id /= NoChannel /\ channelFound /\ CooldownElapsed(session, t)

\* if alerts and len(alerts) > 0: ... if user and channel_id: ... if channel:
\* ... if time_since_last.total_seconds() >= 300:
NotifyGate(n, userFound, channel_id, channelFound, session, t) ==
    n > 0 /\ userFound /\ channel_id /= NoChannel /\ channelFound
        /\ CooldownElapsed(session, t)

\* One iteration of the per-user loop, up to its first await or its end.
MonitorIter(resp, userFound, channelFound) ==
    /\ mpc = "loop"
    /\ LET user_id == snapshot[midx].user_id
           session == snapshot[midx].session
           channel_id == alert_channels[user_id]
           \* if user and channel_id: channel = get_channel(channel_id); if channel:
           resolved == AlertsRead(resp) > 0 /\ userFound /\ channel_id /= NoChannel
                          /\ channelFound
           ev(notified) == MonEvent("monitor", user_id, session.access_token,
                                    IF resp.status = "200" /\ JsonRaises(resp)
                                    THEN "nonjson" ELSE resp.status,
                                    AlertsRead(resp), resolved, notified)
       IN
       IF NotifyGate(AlertsRead(resp), userFound, channel_id, channelFound, session, now)
       THEN \* await self.send_triggered_alert_notification(...)
            /\ mpc' = "notify"
            /\ lastNotifyAt' = [lastNotifyAt EXCEPT ![user_id] = now]
            /\ last' = ev(channel_id)
            /\ UNCHANGED <<user_sessions, alert_channels, snapshot, midx>>
       ELSE IF Unauthorized(resp)
       THEN /\ MonitorEvict(user_id)
            /\ last' = ev(NoChannel)
            /\ UNCHANGED lastNotifyAt
            /\ IF ~HasSession(user_sessions, user_id)
               THEN IterationFailed
               ELSE IF userFound
               THEN \* await user.send(embed=embed)
                    mpc' = "dm" /\ UNCHANGED <<snapshot, midx>>
               ELSE NextIteration
       ELSE /\ last' = ev(NoChannel)
            /\ IF resp.status = "200" /\ ~JsonRaises(resp)
               THEN NextIteration
               ELSE IterationFailed
            /\ UNCHANGED <<user_sessions, alert_channels, lastNotifyAt>>
    /\ UNCHANGED <<now, nextToken, loopRunning, nextPass, pend, scope, notifier>>

\* A monitor that never stamps the session.
TouchSession_Never(d, u, session, t) == d

\* A monitor that drops the session when the Notifier returns.
TouchSession_Evict(d, u, session, t) == DelSession(d, u)

\* A monitor that stamps the session with the start of the clock.
TouchSession_Epoch(d, u, session, t) ==
    IF HasSession(d, u) /\ GetSession(d, u).access_token = session.access_token
    THEN PutSession(d, u, [GetSession(d, u) EXCEPT !.last_alert_check = 0])
    ELSE d

\* session['last_alert_check'] = datetime.now() on the dict the snapshot
\* holds: visible in the store only if the store still holds that dict.
TouchSession(d, u, session, t) ==
    IF HasSession(d, u) /\ GetSession(d, u).access_token = session.access_token
    THEN PutSession(d, u, [GetSession(d, u) EXCEPT !.last_alert_check = t])
    ELSE d

\* The Notifier's channel.send returns or raises (the Notifier swallows every
\* exception); the monitor then stamps the session either way.
NotifyDone(delivered) ==
    /\ mpc = "notify"
    /\ LET user_id == snapshot[midx].user_id
           session == snapshot[midx].session
       IN /\ user_sessions' = TouchSession(user_sessions, user_id, session, now)
          /\ last' = MonEvent(IF delivered THEN "delivered" ELSE "delivery_failed",
                              user_id, session.access_token, "none", 0, FALSE, NoChannel)
    /\ NextIteration
    /\ UNCHANGED <<now, alert_channels, nextToken, loopRunning, nextPass,
                   pend, lastNotifyAt, scope, notifier>>

\* The "session expired" direct message returns or raises (swallowed).
DmDone(delivered) ==
    /\ mpc = "dm"
    /\ last' = MonEvent(IF delivered THEN "dm_sent" ELSE "dm_failed",
                        snapshot[midx].user_id, NoToken, "none", 0, FALSE, NoChannel)
    /\ NextIteration
    /\ UNCHANGED <<now, user_sessions, alert_channels, nextToken, loopRunning,
                   nextPass, pend, lastNotifyAt, scope, notifier>>

\* ---------------------------------------------------------------- commands
\* The login endpoint answers with a status and, on 200, a JSON body that
\* carries an access token or not; or the request raises.
\* After a 200 with a token the handler also requests the alert summary:
\* `summary` tells whether that request answered 200 with a JSON body.
LoginResponses ==
    [status : Statuses \cup CommandFailures, access : {FALSE}, summary : {FALSE}]
        \cup [status : {"200"}, access : {TRUE}, summary : BOOLEAN]

\* access_token = data.get('access'): the token the backend issues, or none.
TokenOf(resp) == IF resp.access THEN nextToken ELSE NoToken

\* A login that stores whatever a 200 carries.
LoginAccepted_Any200(resp) == resp.status = "200"

\* A login that stores a session whatever the backend answered.
LoginAccepted_Always(resp) == TRUE

\* if response.status_code == 200: ... if access_token:
LoginAccepted(resp) == resp.status = "200" /\ TokenOf(resp) /= NoToken

\* alert_summary stays "" unless the summary request answered 200.
SummaryText(resp) == IF resp.summary THEN "summary" ELSE ""

\* The message login_command ends with.  The success embed is sent inside
\* `if alert_summary:`, whose else raises; without a token alert_summary is
\* unbound; both exceptions, a failed request and a non-200 status end in an
\* error embed.
LoginShows(resp) ==
    IF LoginAccepted(resp) /\ SummaryText(resp) /= "" THEN "success" ELSE "error"

\* A binding that a later login does not replace.
BindChannel_KeepFirst(b, u, channel) ==
    IF b[u] = NoChannel THEN [b EXCEPT ![u] = channel] ELSE b

\* self.alert_channels[user_id] = ctx.channel.id
BindChannel(b, u, channel) == [b EXCEPT ![u] = channel]

\* login_command from the backend call on (nothing before it reads the
\* stores): on 200 with a token the session and the channel binding are
\* written; every other outcome writes nothing.
Login(u, username, channel, resp) ==
    /\ mpc /= "loop"
    /\ IF LoginAccepted(resp)
       THEN /\ nextToken <= MaxLogins
            /\ user_sessions' = PutSession(user_sessions, u,
                                           NewSession(TokenOf(resp), username, now))
            /\ alert_channels' = BindChannel(alert_channels, u, channel)
            /\ nextToken' = nextToken + 1
            /\ last' = LoginEvent(u, TokenOf(resp), resp.status, LoginShows(resp), channel)
       ELSE /\ last' = LoginEvent(u, NoToken, resp.status, LoginShows(resp), channel)
            /\ UNCHANGED <<user_sessions, alert_channels, nextToken>>
    /\ UNCHANGED <<now, loopRunning, nextPass, mpc, snapshot, midx, pend,
                   lastNotifyAt, scope, notifier>>

\* logout_command: removes the session and the binding of the caller.
Logout(u) ==
    /\ mpc /= "loop"
    /\ IF HasSession(user_sessions, u)
       THEN /\ user_sessions' = DelSession(user_sessions, u)
            /\ alert_channels' = [alert_channels EXCEPT ![u] = NoChannel]
       ELSE UNCHANGED <<user_sessions, alert_channels>>
    /\ last' = LogoutEvent(u, IF HasSession(user_sessions, u)
                               THEN GetSession(user_sessions, u).access_token
                               ELSE NoToken)
    /\ UNCHANGED <<now, nextToken, loopRunning, nextPass, mpc, snapshot, midx,
                   pend, lastNotifyAt, scope, notifier>>

\* A command that goes on to its backend call without a session.
PendingCall_NoSessionCheck(u) == [user |-> u, token |-> NoToken]

\* if user_id not in self.user_sessions: ... return; otherwise the command
\* reads the session and goes on to its backend call.
PendingCall(u) ==
    IF HasSession(user_sessions, u)
    THEN [user |-> u, token |-> Held(GetSession(user_sessions, u).access_token)]
    ELSE NoPend

\* First segment of alerts_command and of refresh_command, which are the
\* same up to the await: the login check and the read of the session.
CommandStart(u) ==
    /\ mpc /= "loop"
    /\ pend = NoPend
    /\ pend' = PendingCall(u)
    /\ last' = IF HasSession(user_sessions, u)
               THEN CmdEvent("start", u, NoToken, "none")
               ELSE CmdEvent("nosession", u, NoToken, "none")
    /\ UNCHANGED <<now, user_sessions, alert_channels, nextToken, loopRunning,
                   nextPass, mpc, snapshot, midx, lastNotifyAt, scope, notifier>>

\* Second segment of alerts_command: the backend call with the token read
\* before the await.  On 401 `del self.user_sessions[user_id]` raises
\* KeyError when the key is gone, and the except clause skips the rest.
AlertsCall(u, resp) ==
    /\ mpc /= "loop"
    /\ pend /= NoPend /\ pend.user = u
    /\ pend' = NoPend
    /\ IF resp.status = "401" /\ HasSession(user_sessions, u)
       THEN /\ user_sessions' = DelSession(user_sessions, u)
            /\ alert_channels' = [alert_channels EXCEPT ![u] = NoChannel]
       ELSE UNCHANGED <<user_sessions, alert_channels>>
    /\ last' = CmdEvent("alerts", u, pend.token, resp.status)
    /\ UNCHANGED <<now, nextToken, loopRunning, nextPass, mpc, snapshot, midx,
                   lastNotifyAt, scope, notifier>>

\* Second segment of refresh_command: on 401 only the session is deleted.
RefreshCall(u, resp) ==
    /\ mpc /= "loop"
    /\ pend /= NoPend /\ pend.user = u
    /\ pend' = NoPend
    /\ IF resp.status = "401" /\ HasSession(user_sessions, u)
       THEN user_sessions' = DelSession(user_sessions, u)
       ELSE UNCHANGED user_sessions
    /\ last' = CmdEvent("refresh", u, pend.token, resp.status)
    /\ UNCHANGED <<now, alert_channels, nextToken, loopRunning, nextPass, mpc,
                   snapshot, midx, lastNotifyAt, scope, notifier>>

\* Arguments of the alert command that decide its path.
Durations == {[given |-> FALSE, minutes |-> 0], [given |-> TRUE, minutes |-> 0],
              [given |-> TRUE, minutes |-> 60]}

\* The POST of create_alert_command is reached with a valid condition, no
\* duration argument (`if duration is not None:` always returns) and a session.
CreateAlertPosts(u, validCondition, duration) ==
    validCondition /\ ~duration.given /\ HasSession(user_sessions, u)

DurationClass(duration) ==
    IF ~duration.given THEN "none"
    ELSE IF duration.minutes <= 0 THEN "nonpositive" ELSE "positive"

\* Where create_alert_command ends when it does not reach the POST: the
\* condition check, then `if duration is not None:` (the Invalid Duration
\* embed for duration <= 0, an unbound `embed` otherwise), then the session
\* check.
CreateAlertReturn(u, validCondition, duration) ==
    IF ~validCondition THEN "invalid_condition"
    ELSE IF duration.given
    THEN (IF duration.minutes <= 0 THEN "invalid_duration" ELSE "unbound_embed")
    ELSE "nosession"

\* A handler that drops the caller's session on a 400 or a 404.
AfterCreateAlert_EvictsOnError(d, u, resp) ==
    IF resp.status \in {"400", "404"} THEN DelSession(d, u) ELSE d

\* The session store after the answer to the POST was handled: every branch
\* (200/201, 400, 404, other statuses, the except clauses) only edits the
\* loading message.
AfterCreateAlert(d, u, resp) == d

\* create_alert_command: no branch of it writes the stores.
CreateAlert(u, validCondition, duration, resp) ==
    /\ mpc /= "loop"
    /\ IF CreateAlertPosts(u, validCondition, duration)
       THEN /\ last' = AlertEvent(u, GetSession(user_sessions, u).access_token,
                                  resp.status, DurationClass(duration))
            /\ user_sessions' = AfterCreateAlert(user_sessions, u, resp)
       ELSE /\ last' = AlertEvent(u, NoToken,
                                  CreateAlertReturn(u, validCondition, duration),
                                  IF validCondition THEN DurationClass(duration)
                                  ELSE "none")
            /\ UNCHANGED user_sessions
    /\ UNCHANGED <<now, alert_channels, nextToken, loopRunning,
                   nextPass, mpc, snapshot, midx, pend, lastNotifyAt, scope, notifier>>

\* status_command: pings the summary endpoint for a logged-in caller and
\* only displays the outcome.
Status(u, resp) ==
    /\ mpc /= "loop"
    /\ IF HasSession(user_sessions, u)
       THEN last' = CmdEvent("status", u, GetSession(user_sessions, u).access_token,
                             resp.status)
       ELSE last' = CmdEvent("status", u, NoToken, "none")
    /\ UNCHANGED <<now, user_sessions, alert_channels, nextToken, loopRunning,
                   nextPass, mpc, snapshot, midx, pend, lastNotifyAt, scope, notifier>>

\* ------------------------------------------------------------ specification
\* Outcomes of the calls whose body the stores do not depend on.
PlainResponses ==
    {r \in Responses :
        /\ r.body = IF r.status = "200" THEN [shape |-> "list", n |-> 0] ELSE NoBody
        /\ r.status \in Statuses \cup CommandFailures}

\* The inputs a step reads: a channel only where the login stores it, a
\* response only where the handler makes its backend call, the lookups of
\* user and channel only where the monitor makes them.
\* Inputs whose differences show only in what a command displays or sends
\* are told apart where the commands are observed.
Seen(S) == IF scope = "commands" THEN S ELSE OneOf(S)

\* A login either stores a session or does not.
LoginInputs ==
    Seen({r \in LoginResponses : r.access}) \cup Seen({r \in LoginResponses : ~r.access})

\* A call of the alerts or refresh command is answered 401 or otherwise.
CallInputs ==
    Seen({r \in PlainResponses : r.status = "401"})
        \cup Seen({r \in PlainResponses : r.status /= "401"})

\* user = self.bot.get_user(user_id) runs in the alerts branch and in the
\* 401 branch, self.bot.get_channel(channel_id) in the alerts branch.
UserLookups(resp) ==
    IF AlertsRead(resp) > 0 \/ Unauthorized(resp) THEN BOOLEAN ELSE {TRUE}

ChannelLookups(resp) == IF AlertsRead(resp) > 0 THEN BOOLEAN ELSE {TRUE}

\* The duration argument is looked at after the condition was accepted.
DurationInputs(validCondition) ==
    IF validCondition THEN Seen(Durations) ELSE OneOf(Durations)

\* Where the channels are observed one user issues the commands: no handler
\* writes the binding of a user other than its caller.
Callers == IF scope = "channels" THEN OneOf(Users) ELSE Users

\* The channels are told apart where they are observed.
LoginChannels(resp) ==
    IF LoginAccepted(resp) /\ scope = "channels" THEN Channels ELSE OneOf(Channels)

\* The answers to the POST: create_alert_command has branches of its own
\* for 400 and 404; a 401 falls into its else branch with the other statuses.
CreateAlertAnswers ==
    PlainResponses \cup {[status |-> st, body |-> NoBody] : st \in {"400", "404"}}

CreateAlertResponses(u, validCondition, duration) ==
    IF CreateAlertPosts(u, validCondition, duration)
    THEN Seen(CreateAlertAnswers) ELSE OneOf(CreateAlertAnswers)

StatusResponses(u) ==
    IF HasSession(user_sessions, u) THEN Seen(PlainResponses) ELSE OneOf(PlainResponses)

Next ==
    \/ Tick
    \/ OnReady
    \/ MonitorStart
    \/ \E resp \in Responses :
          \E userFound \in UserLookups(resp), channelFound \in ChannelLookups(resp) :
             MonitorIter(resp, userFound, channelFound)
    \/ \E delivered \in BOOLEAN : NotifyDone(delivered)
    \/ \E delivered \in BOOLEAN : DmDone(delivered)
    \/ \E u \in Callers, username \in Usernames, resp \in LoginInputs :
          \E channel \in LoginChannels(resp) : Login(u, username, channel, resp)
    \/ \E u \in Callers : Logout(u)
    \/ \E u \in Callers : CommandStart(u)
    \/ \E u \in Callers, resp \in CallInputs : AlertsCall(u, resp)
    \/ \E u \in Callers, resp \in CallInputs : RefreshCall(u, resp)
    \/ \E u \in Callers, validCondition \in Seen(BOOLEAN) :
          \E duration \in DurationInputs(validCondition) :
             \E resp \in CreateAlertResponses(u, validCondition, duration) :
                CreateAlert(u, validCondition, duration, resp)
    \/ \E u \in Callers : \E resp \in StatusResponses(u) : Status(u, resp)

\* A behaviour observes either the monitor's steps, over MaxTime seconds, or
\* the command handlers' steps, over CmdMaxTime seconds, or the logouts
\* alone, around the first firing of the monitor, or the channels of logins
\* and notifications, over ChanMaxTime seconds.
Spec == Init /\ [][Next]_vars

\* ------------------------------------------------------ undisturbed monitor
\* The monitor on its own: the loop runs, users logged in at time 0 and stay,
\* every triggered-alerts call is answered 200 with one alert or more, user
\* and channel resolve.  The loop keeps firing, the clock keeps advancing and
\* every await returns.
LiveOrders == {<<1>>, <<2>>, <<1, 2>>, <<2, 1>>}

LiveInit ==
    /\ \E order \in LiveOrders :
          /\ user_sessions = [i \in 1..Len(order) |->
                                 [user_id |-> order[i],
                                  session |-> NewSession(i, CHOOSE n \in Usernames : TRUE, 0)]]
          /\ nextToken = Len(order) + 1
    /\ \E b \in [Users -> Channels \cup {NoChannel}] :
          /\ \A u \in Users : (b[u] /= NoChannel) = HasSession(user_sessions, u)
          /\ alert_channels = b
    /\ now = 0
    /\ loopRunning = TRUE
    /\ nextPass = 0
    /\ mpc = "idle"
    /\ snapshot = <<>>
    /\ midx = 1
    /\ pend = NoPend
    /\ lastNotifyAt = [u \in Users |-> NoTime]
    /\ last = Quiet
    /\ scope = "live"
    /\ notifier = NotifierIdle

LiveResponses == {r \in Responses : AlertsRead(r) > 0}

LiveNext ==
    \/ Tick
    \/ MonitorStart
    \/ \E resp \in LiveResponses : MonitorIter(resp, TRUE, TRUE)
    \/ \E delivered \in BOOLEAN : NotifyDone(delivered)

LiveSpec == LiveInit /\ [][LiveNext]_vars /\ WF_vars(LiveNext)

\* ---------------------------------------------------------------- Notifier
\* send_triggered_alert_notification, followed from its call to the return
\* of channel.send, on every list of alert records up to MaxList.
Symbols == {"AAPL", "MSFT"}

AlertRecords == [stock_symbol : Symbols]

AlertLists == UNION {[1..n -> AlertRecords] : n \in 1..MaxList}

Min(a, b) == IF a <= b THEN a ELSE b

\* A Notifier that shows every alert.
AlertsToShow_All(alerts) == alerts

\* alerts_to_show = alerts[:5]
AlertsToShow(alerts) == SubSeq(alerts, 1, Min(Len(alerts), SHOWN))

\* embed.add_field(name=f"🔴 {stock_symbol}", ...)
FieldOf(alert) == [name |-> alert.stock_symbol]

\* "Showing 5 of {len(alerts)} alerts. ..." or the plain footer.
FooterOf(alerts) ==
    IF Len(alerts) > SHOWN
    THEN [shown |-> SHOWN, total |-> Len(alerts)]
    ELSE [shown |-> 0, total |-> 0]

\* The embed: the count of the description, one field per shown alert in
\* the order of the list, the footer.
ComposeEmbed(alerts) ==
    [count |-> Len(alerts),
     fields |-> [i \in 1..Len(AlertsToShow(alerts)) |-> FieldOf(AlertsToShow(alerts)[i])],
     footer |-> FooterOf(alerts)]

NotifierInit ==
    /\ Start
    /\ scope = "monitor"
    /\ notifier \in {[stage |-> "called", alerts |-> a, embed |-> <<>>, sends |-> 0] :
                        a \in AlertLists}

\* From the call to the await: the embed is built.
Compose ==
    /\ notifier.stage = "called"
    /\ notifier' = [notifier EXCEPT !.stage = "composed",
                                    !.embed = ComposeEmbed(notifier.alerts)]
    /\ UNCHANGED <<now, user_sessions, alert_channels, nextToken, loopRunning,
                   nextPass, mpc, snapshot, midx, pend, lastNotifyAt, last, scope>>

\* await channel.send(f"{user.mention} 📢", embed=embed) returns or raises;
\* every exception is swallowed and the Notifier returns.
ChannelSend(delivered) ==
    /\ notifier.stage = "composed"
    /\ notifier' = [notifier EXCEPT !.stage = IF delivered THEN "sent" ELSE "failed",
                                    !.sends = @ + 1]
    /\ UNCHANGED <<now, user_sessions, alert_channels, nextToken, loopRunning,
                   nextPass, mpc, snapshot, midx, pend, lastNotifyAt, last, scope>>

NotifierNext == Compose \/ \E delivered \in BOOLEAN : ChannelSend(delivered)

NotifierSpec == NotifierInit /\ [][NotifierNext]_vars

\* ================================================================== claims
\* The iteration the monitor is about to run, and what a step of it did.
CurUser == snapshot[midx].user_id

CurSession == snapshot[midx].session

\* The store holds the very session dict the snapshot holds for user u.
HoldsSnapshotSession(d, u, session) ==
    HasSession(d, u) /\ GetSession(d, u).access_token = session.access_token

\* A step that ran one monitor iteration up to its await or its end.
IterStep == mpc = "loop" /\ last'.op = "monitor"

\* C1: any two Notifier invocations for the same user are at least COOLDOWN
\* seconds apart: when the monitor invokes the Notifier for a user, no
\* invocation for that user happened less than COOLDOWN seconds before.
C1_InvocationsCooldownApart ==
    [][(mpc = "loop" /\ mpc' = "notify")
         => (lastNotifyAt[CurUser] = NoTime \/ now - lastNotifyAt[CurUser] >= COOLDOWN)]_vars

\* C2: whenever the monitor has just invoked the Notifier for a user, that
\* user has a record in the session store and a bound channel.
C2_NotifiedUserHasSessionAndChannel ==
    (last.op = "monitor" /\ last.notified /= NoChannel)
        => (HasSession(user_sessions, last.user) /\ alert_channels[last.user] /= NoChannel)

\* C3: an iteration for a session that was never stamped since its login
\* (the store still holds it), whose call returns one or more alerts with
\* user and bound channel resolved, invokes the Notifier, however soon after
\* the login it runs.
C3_FreshSessionNotifiedAtOnce ==
    [][(IterStep /\ last'.status = "200" /\ last'.alerts > 0 /\ last'.resolved
          /\ HoldsSnapshotSession(user_sessions, CurUser, CurSession)
          /\ CurSession.last_alert_check = CurSession.connected_at)
         => mpc' = "notify"]_vars

\* C4: when the Notifier's send fails, last_alert_check is not advanced: the
\* store is as it was before the Notifier returned.
C4_FailedDeliveryLeavesStamp ==
    [][(mpc = "notify" /\ last'.op = "delivery_failed")
         => user_sessions' = user_sessions]_vars

\* C5: an iteration whose call returns one or more alerts fewer than COOLDOWN
\* seconds after the last_alert_check of the session it handles does not
\* invoke the Notifier and leaves the session store, and with it every
\* last_alert_check, unchanged.
C5_WithinCooldownSuppressed ==
    [][(IterStep /\ last'.alerts > 0 /\ now - CurSession.last_alert_check < COOLDOWN)
         => /\ mpc' /= "notify"
            /\ last'.notified = NoChannel
            /\ lastNotifyAt' = lastNotifyAt
            /\ user_sessions' = user_sessions
            /\ alert_channels' = alert_channels]_vars

\* C5 witness: a pass one period after a notification stamped the session
\* read alerts for it, resolved user and channel, and did not notify.
C5_Witness ==
    /\ last.op = "monitor" /\ last.status = "200" /\ last.alerts > 0
    /\ last.resolved /\ last.notified = NoChannel
    /\ HasSession(user_sessions, last.user)
    /\ LET session == GetSession(user_sessions, last.user)
       IN /\ session.access_token = last.token
          /\ session.last_alert_check /= session.connected_at
          /\ now - session.last_alert_check = PERIOD

SnapshotUsersDistinct(snap) ==
    \A i, j \in 1..Len(snap) : snap[i].user_id = snap[j].user_id => i = j

C7_UnauthorizedEvictsSessionAndBinding ==
    [][(IterStep /\ last'.status = "401")
         => (~HasSession(user_sessions', CurUser) /\ alert_channels'[CurUser] = NoChannel)]_vars

\* C8: when a command that makes an authenticated backend call (alerts,
\* alert creation, refresh, status) has seen a 401 for its caller, the caller
\* has no session in the store when the command finishes.
C8_CommandUnauthorizedEvicts ==
    (last.op \in {"alerts", "alert", "refresh", "status"} /\ last.status = "401")
        => ~HasSession(user_sessions, last.user)

\* Position of the pass: decreases with every step the monitor takes.
PassRank(pc, snap, idx) ==
    IF pc = "idle" THEN 0
    ELSE 2 * (Len(snap) - idx) + (IF pc = "loop" THEN 2 ELSE 1)

MonitorOps == {"monitor", "delivered", "delivery_failed", "dm_sent", "dm_failed"}

\* C9: inside a pass, whatever the iterations before it did (timeout,
\* connection failure, 5xx, malformed body, an error while evicting or
\* notifying), every user of the snapshot gets their iteration: a step of the
\* monitor moves to the next user and ends the pass only after the last one,
\* no other step touches the pass, a user whose call returns alerts past the
\* cool-down with user and channel resolved is notified in their iteration,
\* and the pass terminates because each of its steps lowers PassRank.
C9_FailuresIsolatedPassCompletes ==
    [][(scope = "monitor" /\ mpc /= "idle")
         => /\ midx \in 1..Len(snapshot)
            /\ mpc' /= "idle" => (snapshot' = snapshot /\ midx' \in {midx, midx + 1})
            /\ mpc' = "idle" => (midx = Len(snapshot) /\ last'.op \in MonitorOps)
            /\ midx' /= midx => last'.op \in MonitorOps
            /\ last'.op \in MonitorOps
                 => PassRank(mpc', snapshot', midx') < PassRank(mpc, snapshot, midx)
            /\ last'.op \notin MonitorOps
                 => PassRank(mpc', snapshot', midx') = PassRank(mpc, snapshot, midx)
            /\ (IterStep /\ last'.status = "200" /\ last'.alerts > 0 /\ last'.resolved
                  /\ now - CurSession.last_alert_check >= COOLDOWN)
                 => mpc' = "notify"]_vars

\* C9 witness: the call for the first user of a two-user snapshot timed out
\* and the pass stands at the second user, who is past the cool-down with a
\* bound channel.
C9_Witness ==
    /\ last.op = "monitor" /\ last.status = "Timeout"
    /\ mpc = "loop" /\ midx = 2
    /\ last.user = snapshot[1].user_id
    /\ alert_channels[CurUser] /= NoChannel
    /\ now - CurSession.last_alert_check >= COOLDOWN

\* Outcomes of the monitor's call that are failures other than a 401.
OtherFailures == {"Timeout", "ConnectionError", "500", "nonjson"}

\* C10: an iteration whose call fails with anything but a 401 leaves the
\* session store (every last_alert_check included) and the channel bindings
\* unchanged and sends nothing; the user is queried again in the next pass,
\* for every pass snapshots the whole store and calls the backend with the
\* token of each snapshot entry.
C10_OtherFailureLeavesSessionForRetry ==
    [][/\ (IterStep /\ last'.status \in OtherFailures)
           => /\ user_sessions' = user_sessions
              /\ alert_channels' = alert_channels
              /\ lastNotifyAt' = lastNotifyAt
              /\ mpc' \in {"loop", "idle"}
       /\ last'.op = "pass_start" => (snapshot' = user_sessions /\ midx' = 1 /\ mpc' = "loop")
       /\ IterStep => (last'.user = CurUser /\ last'.token = CurSession.access_token)]_vars

\* C10 witness: the call for a user failed with a 5xx and the user's session,
\* the one the call was made for, and binding are in the stores.
C10_Witness ==
    /\ last.op = "monitor" /\ last.status = "500"
    /\ HasSession(user_sessions, last.user)
    /\ GetSession(user_sessions, last.user).access_token = last.token
    /\ alert_channels[last.user] /= NoChannel

\* C11: a pass that starts on an empty session store ends at once: it takes
\* no snapshot, enters no iteration and changes nothing; and every backend
\* call and every message of the monitor belongs to an iteration over an
\* entry of a non-empty snapshot.
C11_EmptyStorePassDoesNothing ==
    [][/\ (scope = "monitor" /\ mpc = "idle" /\ user_sessions = <<>>
            /\ last'.op \in {"pass_start", "pass_empty"})
           => /\ last'.op = "pass_empty"
              /\ mpc' = "idle" /\ snapshot' = <<>>
              /\ user_sessions' = user_sessions
              /\ alert_channels' = alert_channels
              /\ lastNotifyAt' = lastNotifyAt
       /\ mpc' /= "idle" => midx' \in 1..Len(snapshot')
       /\ last'.op \in MonitorOps => (mpc /= "idle" /\ midx \in 1..Len(snapshot))]_vars

\* C11 witness: a pass has just returned on the empty store.
C11_Witness ==
    /\ last.op = "pass_empty"
    /\ user_sessions = <<>> /\ snapshot = <<>>
    /\ mpc = "idle" /\ nextPass = now + PERIOD

\* A step gave user u a session they did not have, or another one.
Added(u) ==
    /\ HasSession(user_sessions', u)
    /\ \/ ~HasSession(user_sessions, u)
       \/ GetSession(user_sessions', u).access_token
             /= GetSession(user_sessions, u).access_token

\* A step took the session of user u out of the store.
Removed(u) == HasSession(user_sessions, u) /\ ~HasSession(user_sessions', u)

\* C12: a session enters the store only by a login of that user answered 200
\* with an access token, and leaves it only by that user's logout or by a
\* 401 seen for that user (alerts, refresh, monitor).  Where the commands are
\* observed every step that is not a command is the monitor's or the
\* clock's, and where the monitor is observed every other step is a
\* command's or the clock's; where only the logouts are observed a removal
\* is that user's logout or a step that leaves `last` as it was; where the
\* channels are observed a session enters by a login that binds a channel
\* and a removal leaves `last` as it was.
C12_SessionsEnterByLoginLeaveByLogoutOr401 ==
    [][user_sessions' /= user_sessions => \A u \in Users :
         /\ Added(u)
              => /\ mpc /= "loop"
                 /\ scope = "monitor" => last' = Quiet
                 /\ scope = "logouts" => last' = last
                 /\ scope = "channels" => (last'.op = "bound" /\ last'.user = u)
                 /\ scope = "commands"
                      => /\ last'.op = "login" /\ last'.user = u /\ last'.status = "200"
                         /\ last'.token /= NoToken
                         /\ last'.token = GetSession(user_sessions', u).access_token
         /\ Removed(u)
              => \/ /\ scope = "commands" /\ last'.user = u
                    /\ \/ last'.op = "logout"
                       \/ last'.op \in {"alerts", "refresh"} /\ last'.status = "401"
                 \/ scope = "commands" /\ mpc = "loop" /\ last' = Quiet
                 \/ /\ scope = "monitor" /\ last'.op = "monitor"
                    /\ last'.user = u /\ last'.status = "401"
                 \/ scope = "monitor" /\ mpc /= "loop" /\ last' = Quiet
                 \/ /\ scope = "logouts"
                    /\ \/ last'.op = "logout" /\ last'.user = u
                       \/ last' = last
                 \/ scope = "channels" /\ last' = last]_vars

\* C12 witness: a logout has removed its caller's session and left the
\* session of the other user in the store.
C12_Witness ==
    /\ last.op = "logout"
    /\ ~HasSession(user_sessions, last.user)
    /\ Len(user_sessions) = 1

\* C13: while a record lives its access token, refresh token, username and
\* connected_at do not change and its last_alert_check changes only when the
\* monitor's Notifier call for that user returns; a login that succeeds puts
\* a whole fresh record: a token never issued before, connected_at and
\* last_alert_check the time of the login.
C13_RecordImmutableReplacedByLogin ==
    [][user_sessions' /= user_sessions => \A u \in Users :
         /\ (HasSession(user_sessions, u) /\ HasSession(user_sessions', u) /\ ~Added(u))
              => LET a == GetSession(user_sessions, u)
                     b == GetSession(user_sessions', u)
                 IN /\ b.username = a.username
                    /\ b.refresh_token = a.refresh_token
                    /\ b.connected_at = a.connected_at
                    /\ b.last_alert_check /= a.last_alert_check
                         => (mpc = "notify" /\ mpc' /= "notify" /\ CurUser = u)
         /\ Added(u)
              => LET b == GetSession(user_sessions', u)
                 IN /\ b.access_token = nextToken /\ nextToken' = nextToken + 1
                    /\ \A i \in 1..Len(user_sessions) :
                          user_sessions[i].session.access_token < b.access_token
                    /\ b.connected_at = now
                    /\ b.last_alert_check = now]_vars

\* C13 witness: a user who logged in first has just logged in again, after
\* the other user and later than their first login: their record is still
\* the first of the store and is a fresh one.
C13_Witness ==
    /\ last.op = "login" /\ last.status = "200"
    /\ Len(user_sessions) = 2
    /\ user_sessions[1].user_id = last.user
    /\ user_sessions[1].session.access_token > user_sessions[2].session.access_token
    /\ user_sessions[1].session.connected_at = now
    /\ user_sessions[2].session.connected_at < now

\* C14: the last_alert_check of a record never decreases while the record is
\* in the store.
C14_StampNonDecreasing ==
    [][user_sessions' /= user_sessions => \A u \in Users :
         (HasSession(user_sessions, u) /\ HasSession(user_sessions', u) /\ ~Added(u))
           => GetSession(user_sessions', u).last_alert_check
                >= GetSession(user_sessions, u).last_alert_check]_vars

\* C14 witness: a record that was stamped after its login, at a time the
\* clock has since left behind.
C14_Witness ==
    \E u \in Users :
       /\ HasSession(user_sessions, u)
       /\ GetSession(user_sessions, u).last_alert_check
            > GetSession(user_sessions, u).connected_at
       /\ now > GetSession(user_sessions, u).last_alert_check

\* C15: every record of the session store has an access token, and a login
\* that got no token (a 200 without one included) writes neither store.
C15_StoredTokenNonEmpty ==
    [][/\ \A i \in 1..Len(user_sessions') :
            user_sessions'[i].session.access_token /= NoToken
       /\ (last'.op = "login" /\ last'.token = NoToken)
           => (user_sessions' = user_sessions /\ alert_channels' = alert_channels)]_vars

\* C15 witness: a login answered 200 without an access token has finished
\* and its caller has no session.
C15_Witness ==
    /\ last.op = "login" /\ last.status = "200" /\ last.token = NoToken
    /\ ~HasSession(user_sessions, last.user)

\* C16: the session store holds at most one record per user id, and after a
\* login that succeeded exactly one for its caller.
C16_OneRecordPerUser ==
    /\ \A i, j \in 1..Len(user_sessions) :
          user_sessions[i].user_id = user_sessions[j].user_id => i = j
    /\ (last.op = "login" /\ last.token /= NoToken)
        => Cardinality({i \in 1..Len(user_sessions) :
                          user_sessions[i].user_id = last.user}) = 1

\* C16 witness: both users are logged in and the one who logged in first has
\* just logged in a second time, at once after the other.
C16_Witness ==
    /\ last.op = "login" /\ last.token /= NoToken
    /\ Len(user_sessions) = 2
    /\ user_sessions[1].user_id = last.user
    /\ user_sessions[1].session.access_token = last.token
    /\ user_sessions[2].session.access_token < last.token
    /\ user_sessions[2].session.connected_at = now

\* C17: at most one pass is in progress: a pass starts only on a running
\* loop that is idle with no snapshot left over, the schedule of the loop is
\* moved only by its start and by a pass that begins, and an on_ready that
\* finds the loop running changes nothing of it.
C17_OnePassAtATime ==
    [][/\ last'.op \in {"pass_start", "pass_empty"}
           => (loopRunning /\ mpc = "idle" /\ snapshot = <<>> /\ midx = 1)
       /\ loopRunning => loopRunning'
       /\ (last'.op = "ready" /\ loopRunning)
           => UNCHANGED <<loopRunning, nextPass, mpc, snapshot, midx>>
       /\ (last'.op = "ready" /\ ~loopRunning)
           => (loopRunning' /\ nextPass' = now /\ UNCHANGED <<mpc, snapshot, midx>>)
       /\ (loopRunning /\ nextPass' /= nextPass)
           => (mpc = "idle" /\ now >= nextPass /\ nextPass' = now + PERIOD)]_vars

\* C17 witness: on_ready came again while a pass is suspended in a send.
C17_Witness ==
    /\ last.op = "ready"
    /\ loopRunning
    /\ mpc \in {"notify", "dm"}
    /\ nextPass > now

\* C18: invoking the Notifier changes neither store, and when it returns,
\* delivered or not, the channel bindings are as before and the session
\* store differs at most by the stamp the monitor writes after the call.
C18_NotifierLeavesStores ==
    [][/\ (mpc = "loop" /\ mpc' = "notify")
           => (user_sessions' = user_sessions /\ alert_channels' = alert_channels)
       /\ (mpc = "notify" /\ mpc' /= "notify")
           => /\ alert_channels' = alert_channels
              /\ Len(user_sessions') = Len(user_sessions)
              /\ \A i \in 1..Len(user_sessions) :
                    /\ user_sessions'[i].user_id = user_sessions[i].user_id
                    /\ [user_sessions'[i].session EXCEPT !.last_alert_check = NoTime]
                         = [user_sessions[i].session EXCEPT !.last_alert_check = NoTime]
                    /\ user_sessions[i].user_id /= CurUser
                         => user_sessions'[i] = user_sessions[i]]_vars

\* C18 witness: the Notifier returned from a failed delivery; both users'
\* sessions and the notified user's binding are in the stores.
C18_Witness ==
    /\ last.op = "delivery_failed"
    /\ Len(user_sessions) = 2
    /\ HasSession(user_sessions, last.user)
    /\ GetSession(user_sessions, last.user).access_token = last.token
    /\ alert_channels[last.user] /= NoChannel

\* C19: for a non-empty list of n alerts one Notifier call makes exactly one
\* send; the message shows the first min(n, 5) alerts in the order of the
\* list and none of the others, and when n > 5 its footer states the total n.
C19_OneMessageCappedAtFive ==
    /\ notifier.stage \in {"called", "composed"} => notifier.sends = 0
    /\ notifier.stage \in {"sent", "failed"}
        => LET n == Len(notifier.alerts)
               e == notifier.embed
           IN /\ notifier.sends = 1
              /\ Len(e.fields) = (IF n <= 5 THEN n ELSE 5)
              /\ \A i \in 1..Len(e.fields) :
                    e.fields[i].name = notifier.alerts[i].stock_symbol
              /\ e.count = n
              /\ n > 5 => (e.footer.shown = 5 /\ e.footer.total = n)
              /\ n <= 5 => e.footer.total = 0

\* C19 witness: a list of six alerts that differ in their first two entries
\* has been sent.
C19_Witness ==
    /\ notifier.stage = "sent"
    /\ Len(notifier.alerts) = 6
    /\ notifier.alerts[1] /= notifier.alerts[2]
    /\ Len(notifier.embed.fields) = 5
    /\ notifier.embed.footer.total = 6

\* C20: a failed delivery ends the user's iteration like a delivered one:
\* the statement after the Notifier call runs (the stamp, where the store
\* holds the session), no second attempt is made for the user in the pass
\* (the snapshot names each user once and the pass moves on), and the pass
\* goes to the next user or ends after the last.
C20_FailedDeliveryNotRetried ==
    [][(mpc = "notify" /\ last'.op = "delivery_failed")
         => /\ SnapshotUsersDistinct(snapshot)
            /\ lastNotifyAt' = lastNotifyAt
            /\ midx < Len(snapshot)
                 => (mpc' = "loop" /\ midx' = midx + 1 /\ snapshot' = snapshot)
            /\ midx = Len(snapshot) => mpc' = "idle"
            /\ HoldsSnapshotSession(user_sessions, CurUser, CurSession)
                 => GetSession(user_sessions', CurUser).last_alert_check = now]_vars

\* C20 witness: the delivery to the first user of a two-user snapshot failed
\* and the pass stands at the second user.
C20_Witness ==
    /\ mpc = "loop" /\ midx = 2
    /\ last.op = "delivery_failed"
    /\ last.user = snapshot[1].user_id

\* C21: an iteration whose call succeeds with zero alerts sends nothing and
\* leaves the session store (every last_alert_check included) and the
\* channel bindings unchanged.
C21_ZeroAlertsNoAction ==
    [][(IterStep /\ last'.status = "200" /\ last'.alerts = 0)
         => /\ mpc' \in {"loop", "idle"}
            /\ last'.notified = NoChannel
            /\ lastNotifyAt' = lastNotifyAt
            /\ user_sessions' = user_sessions
            /\ alert_channels' = alert_channels]_vars

\* C21 witness: a call succeeded with zero alerts for a user whose session
\* is in the store, past the cool-down, with a bound channel.
C21_Witness ==
    /\ last.op = "monitor" /\ last.status = "200" /\ last.alerts = 0
    /\ HasSession(user_sessions, last.user)
    /\ GetSession(user_sessions, last.user).access_token = last.token
    /\ now - GetSession(user_sessions, last.user).last_alert_check >= COOLDOWN
    /\ alert_channels[last.user] /= NoChannel

\* C22: an iteration that reads alerts past the cool-down while no channel
\* is bound, or the user or the bound channel does not resolve, sends
\* nothing and leaves the session store (every last_alert_check included)
\* and the channel bindings unchanged, so that the next pass finds the
\* session as it was.
C22_UnresolvedNoAction ==
    [][(IterStep /\ last'.status = "200" /\ last'.alerts > 0 /\ ~last'.resolved
          /\ now - CurSession.last_alert_check >= COOLDOWN)
         => /\ mpc' \in {"loop", "idle"}
            /\ last'.notified = NoChannel
            /\ lastNotifyAt' = lastNotifyAt
            /\ user_sessions' = user_sessions
            /\ alert_channels' = alert_channels]_vars

\* C22 witness: alerts were read past the cool-down for a user whose session
\* and binding are in the stores, the user or the channel did not resolve,
\* and nothing was sent.
C22_Witness ==
    /\ last.op = "monitor" /\ last.status = "200" /\ last.alerts > 0
    /\ ~last.resolved /\ last.notified = NoChannel
    /\ HasSession(user_sessions, last.user)
    /\ GetSession(user_sessions, last.user).access_token = last.token
    /\ now - GetSession(user_sessions, last.user).last_alert_check >= COOLDOWN
    /\ alert_channels[last.user] /= NoChannel

\* A user other than u has the same session and binding after the step.
SameFor(v) ==
    /\ alert_channels'[v] = alert_channels[v]
    /\ HasSession(user_sessions', v) = HasSession(user_sessions, v)
    /\ HasSession(user_sessions, v)
         => GetSession(user_sessions', v) = GetSession(user_sessions, v)

\* C23: a logout leaves its caller without session; when the caller had a
\* session their binding is removed too, when they had none neither store
\* changes (and the command ends normally); the session and the binding of
\* every other user are as before.
C23_LogoutRemovesCallerOnly ==
    [][(scope = "commands" /\ last'.op = "logout")
         => LET u == last'.user IN
            /\ ~HasSession(user_sessions', u)
            /\ HasSession(user_sessions, u) => alert_channels'[u] = NoChannel
            /\ ~HasSession(user_sessions, u)
                 => (user_sessions' = user_sessions /\ alert_channels' = alert_channels)
            /\ Len(user_sessions') = Len(user_sessions)
                                       - (IF HasSession(user_sessions, u) THEN 1 ELSE 0)
            /\ \A v \in Users \ {u} : SameFor(v)]_vars

\* C23 witness: a logout removed the session of its caller while another
\* user keeps session and binding.
C23_Witness ==
    /\ last.op = "logout" /\ last.token /= NoToken
    /\ ~HasSession(user_sessions, last.user)
    /\ alert_channels[last.user] = NoChannel
    /\ \E v \in Users \ {last.user} :
          HasSession(user_sessions, v) /\ alert_channels[v] /= NoChannel

\* C24: a pass works on the entries the store had when the pass started,
\* one entry per user; no step changes that snapshot while the pass runs,
\* whatever logins, logouts and evictions happen meanwhile; the pass enters
\* the iteration of each index once (it never re-enters the loop at the same
\* index and never steps over one) and ends only after the last index.  The
\* loop over the snapshot never fails: an error raised while one user is
\* handled ends that user's handling and the loop goes on.
C24_PassProcessesSnapshotOnce ==
    [][(mpc /= "idle" \/ mpc' /= "idle")
         => /\ mpc = "idle"
                 => /\ mpc' = "loop" /\ midx' = 1
                    /\ snapshot' = user_sessions /\ user_sessions' = user_sessions
                    /\ SnapshotUsersDistinct(snapshot')
            /\ mpc /= "idle"
                 => /\ midx \in 1..Len(snapshot)
                    /\ mpc' /= "idle" => snapshot' = snapshot
                    /\ \/ mpc' = mpc /\ midx' = midx /\ mpc /= "loop"
                       \/ mpc = "loop" /\ mpc' \in {"notify", "dm"} /\ midx' = midx
                       \/ mpc' = "loop" /\ midx' = midx + 1
                       \/ mpc' = "idle" /\ midx = Len(snapshot)]_vars

\* C24 witness: the pass is at the iteration of its second user, who logged
\* out while the pass was suspended in the iteration of the first.
C24_Witness ==
    /\ mpc = "loop" /\ midx = 2 /\ Len(snapshot) = 2
    /\ ~HasSession(user_sessions, snapshot[2].user_id)
    /\ HasSession(user_sessions, snapshot[1].user_id)

\* C25: an alert command of a user with a session and a valid condition
\* sends its POST (carrying the session's token) when the duration argument
\* is positive, and sends none when it is zero or negative.
C25_PositiveDurationPosts ==
    (last.op = "alert" /\ last.status /= "invalid_condition"
       /\ HasSession(user_sessions, last.user))
      => /\ last.duration = "positive"
              => last.token = GetSession(user_sessions, last.user).access_token
         /\ last.duration = "nonpositive" => last.token = NoToken

\* C26: an alert creation answered 400 or 404 leaves the session store
\* (every last_alert_check included) and the channel bindings unchanged.
C26_RejectedAlertChangesNothing ==
    [][(last'.op = "alert" /\ last'.status \in {"400", "404"})
         => (user_sessions' = user_sessions /\ alert_channels' = alert_channels)]_vars

\* C26 witness: the POST of a user with a session and a bound channel was
\* answered 400 or 404.
C26_Witness ==
    /\ last.op = "alert" /\ last.status \in {"400", "404"}
    /\ HasSession(user_sessions, last.user)
    /\ GetSession(user_sessions, last.user).access_token = last.token
    /\ alert_channels[last.user] /= NoChannel

\* C27: an iteration of the monitor changes the stores only when its call was
\* answered 401 and the store still holds the session whose token the call
\* carried: a 401 for the token of a session that a later login replaced
\* removes neither the new session nor its binding.
C27_MonitorEvictsOnlyItsOwnSession ==
    [][(IterStep /\ (user_sessions' /= user_sessions \/ alert_channels' /= alert_channels))
         => (last'.status = "401"
               /\ HoldsSnapshotSession(user_sessions, CurUser, CurSession))]_vars

\* C28: the second segment of the alerts and refresh commands, answered 401,
\* removes the session whose token the call carried when the store still
\* holds it, and otherwise (the caller logged in again, or has no session
\* any more) changes neither store.
C28_CommandEvictsOnlyItsOwnSession ==
    [][(last'.op \in {"alerts", "refresh"} /\ last'.status = "401")
         => IF HasSession(user_sessions, last'.user)
                /\ GetSession(user_sessions, last'.user).access_token = last'.token
            THEN ~HasSession(user_sessions', last'.user)
            ELSE user_sessions' = user_sessions /\ alert_channels' = alert_channels]_vars

\* C30: a login that ends with an error message has written neither store,
\* and a login that wrote the stores (200 with a token) ends with the
\* success message whatever became of its alert-summary request.
C30_LoginErrorStoresNothing ==
    [][last'.op = "login"
         => /\ last'.shown = "error"
                 => (user_sessions' = user_sessions /\ alert_channels' = alert_channels)
            /\ user_sessions' /= user_sessions => last'.shown = "success"]_vars

\* C29: the monitor issues no backend call with the token of a session that
\* a logout removed.  Where only the logouts are observed, `last` is the
\* latest logout; at "loop" the next step of the program is the call of
\* iteration midx, made with the snapshot's token.
C29_NoCallWithLoggedOutToken ==
    (scope = "logouts" /\ mpc = "loop" /\ last.op = "logout" /\ last.token /= NoToken)
        => CurSession.access_token /= last.token

\* C31: a login whose backend call fails (a status other than 200, an
\* exception, a 200 without access token) leaves the session store (every
\* last_alert_check included) and the channel bindings unchanged, also when
\* its caller already has a session.
C31_FailedLoginKeepsSession ==
    [][(last'.op = "login" /\ (last'.status /= "200" \/ last'.token = NoToken))
         => (user_sessions' = user_sessions /\ alert_channels' = alert_channels)]_vars

\* C31 witness: a login of a user with a session and a bound channel failed.
C31_Witness ==
    /\ last.op = "login" /\ last.token = NoToken
    /\ HasSession(user_sessions, last.user)
    /\ alert_channels[last.user] /= NoChannel

\* C32: whenever the program is suspended, every user with a record in the
\* session store has a bound channel.
C32_SessionHasBinding ==
    \A u \in Users : HasSession(user_sessions, u) => alert_channels[u] /= NoChannel

\* C32 witness: the monitor has evicted one user on a 401, taking session
\* and binding, while the other user keeps both.
C32_Witness ==
    /\ last.op = "monitor" /\ last.status = "401"
    /\ ~HasSession(user_sessions, last.user)
    /\ alert_channels[last.user] = NoChannel
    /\ \E v \in Users \ {last.user} :
          HasSession(user_sessions, v) /\ alert_channels[v] /= NoChannel

\* C33: a channel is bound only for users who have a record in the session
\* store.
C33_BindingHasSession ==
    \A u \in Users : alert_channels[u] /= NoChannel => HasSession(user_sessions, u)

\* C37: an alerts, refresh or alert-creation command of a user without a
\* session makes no backend call (none is pending, none is recorded) and
\* changes neither store.
C37_NoSessionNoCall ==
    [][(scope = "commands"
          /\ \/ last'.op = "nosession"
             \/ last'.op = "alert" /\ ~HasSession(user_sessions, last'.user))
         => /\ user_sessions' = user_sessions /\ alert_channels' = alert_channels
            /\ pend' = pend
            /\ last'.token = NoToken
            /\ last'.status \notin {r.status : r \in CreateAlertAnswers}]_vars

\* C37 witness: a user without a session, whose channel is still bound,
\* issued the alerts or the refresh command while the other user is logged in.
C37_Witness ==
    /\ last.op = "nosession" /\ pend = NoPend
    /\ ~HasSession(user_sessions, last.user)
    /\ alert_channels[last.user] /= NoChannel
    /\ user_sessions /= <<>>

\* C34: the Notifier is invoked for a user on the channel in which that
\* user's latest successful login was issued.
C34_NotifiedOnLatestLoginChannel ==
    (scope = "channels" /\ last.op = "bound" /\ last.notified /= NoChannel)
        => last.notified = last.channel

\* C34 witness: a user who logged in again from another channel has been
\* notified on the channel of that login.
C34_Witness ==
    /\ scope = "channels" /\ last.op = "bound" /\ last.moved
    /\ last.notified = last.channel

\* C35: in the undisturbed monitor every user with a session is eventually
\* notified (the Notifier is invoked for them), and an iteration for a user
\* not yet notified that runs COOLDOWN seconds or more after their login
\* invokes the Notifier.
C35_EventuallyNotified ==
    /\ \A u \in Users :
          (scope = "live" /\ HasSession(user_sessions, u)) ~> (lastNotifyAt[u] /= NoTime)
    /\ [][(scope = "live" /\ IterStep /\ lastNotifyAt[CurUser] = NoTime
             /\ now - CurSession.connected_at >= COOLDOWN)
            => mpc' = "notify"]_vars

\* C35 witness: the first notification of a user, COOLDOWN seconds or more
\* after their login.
C35_Witness ==
    /\ scope = "live" /\ last.op = "monitor" /\ last.notified /= NoChannel
    /\ LET s == GetSession(user_sessions, last.user)
       IN s.last_alert_check = s.connected_at /\ now - s.connected_at >= COOLDOWN

====
